---------------------------- MODULE Spec2Model ----------------------------
(***************************************************************************)
(* Model of app.py, the Streamlit dashboard of the liver disease pattern   *)
(* analysis system.                                                        *)
(*                                                                         *)
(* A Streamlit script is executed from top to bottom once per user         *)
(* interaction ("script run").  Widget values live in the session and      *)
(* survive reruns; every Python variable of the script is rebuilt by each  *)
(* run.  The bundle returned by load_pipeline() is cached per process by   *)
(* the st.cache_resource decorator.                                        *)
(*                                                                         *)
(* Numbers.  Probabilities are integers in percent (0.45 is 45).  Form     *)
(* values are records [t, v]: t is the Python type ("int" or "float") and  *)
(* v the value in tenths (4.5 is 45, the int 32 is 320), so that a         *)
(* coercion between int and float is visible.                              *)
(***************************************************************************)
EXTENDS Integers, Sequences, FiniteSets, TLC

VARIABLES
    \* ---- one session's script run (app.py:22-226) ----
    pipeline,       \* bundle["pipeline"]: the number of classes predict_proba returns
    feature_names,  \* bundle["feature_names"]
    widget,         \* session widget state: feature -> Unset or the value the user set
    pc,             \* position of the script run
    i,              \* features collected so far (loop index of app.py:75)
    input_data,     \* the dict of app.py:72
    cols,           \* the two UI columns of app.py:73, each the widgets placed in it
    input_df,       \* the one-row frame of app.py:91, as a sequence of <<name, value>>
    button,         \* whether this run was started by the Analyze button
    probs,          \* result of predict_proba in this run (index 0..n-1)
    class_probs,    \* the sorted list of app.py:103
    rendered,       \* result elements written to the page in this run, in order
    error,          \* exception that ended the analysis of this run, or "none"
    predict_calls,  \* calls of pipeline.predict_proba in this run
    \* ---- the process-wide resource cache (app.py:18-22) ----
    cache,          \* the cached bundle object, or NoBundle
    loads,          \* number of joblib.load calls so far in the process
    lock,           \* session holding the cache's compute lock, 0 when free
    spc,            \* position of each session in load_pipeline()
    held            \* the bundle object each session's run got from load_pipeline()

runVars == <<pipeline, feature_names, widget, pc, i, input_data, cols, input_df,
             button, probs, class_probs, rendered, error, predict_calls>>
cacheVars == <<cache, loads, lock, spc, held>>
vars == <<runVars, cacheVars>>

(***************************************************************************)
(* Bounds of the model.                                                    *)
(***************************************************************************)
MaxFeatures == 3
NumSessions == 3

(***************************************************************************)
(* Numbers of the form.                                                    *)
(***************************************************************************)
I(n) == [t |-> "int", v |-> 10 * n]
F(tenths) == [t |-> "float", v |-> tenths]
Unset == [t |-> "unset", v |-> 0]

(***************************************************************************)
(* Static tables of the script.                                            *)
(***************************************************************************)
CLASS_MAP ==
    [k \in 0..4 |->
        CASE k = 0 -> "Healthy Liver"
          [] k = 1 -> "Cirrhosis"
          [] k = 2 -> "Hepatitis"
          [] k = 3 -> "Fibrosis"
          [] k = 4 -> "Suspected Liver Disorder"]

FEATURE_UI ==
    [key \in {"age", "albumin", "alkaline phosphatase", "alanine aminotransferase",
              "aspartate aminotransferase", "bilirubin", "cholinesterase",
              "cholesterol", "creatinina", "gamma glutamyl transferase", "protein"} |->
        CASE key = "age" ->
               [label |-> "Age (years)", min |-> I(1), max |-> I(100), default |-> I(32)]
          [] key = "albumin" ->
               [label |-> "Albumin (g/dL)", min |-> F(15), max |-> F(60), default |-> F(45)]
          [] key = "alkaline phosphatase" ->
               [label |-> "Alkaline Phosphatase (U/L)", min |-> I(40), max |-> I(400),
                default |-> I(95)]
          [] key = "alanine aminotransferase" ->
               [label |-> "ALT - Alanine Aminotransferase (U/L)", min |-> I(5),
                max |-> I(300), default |-> I(22)]
          [] key = "aspartate aminotransferase" ->
               [label |-> "AST - Aspartate Aminotransferase (U/L)", min |-> I(5),
                max |-> I(300), default |-> I(24)]
          [] key = "bilirubin" ->
               [label |-> "Total Bilirubin (mg/dL)", min |-> F(1), max |-> F(100),
                default |-> F(8)]
          [] key = "cholinesterase" ->
               [label |-> "Cholinesterase (U/L)", min |-> I(2000), max |-> I(12000),
                default |-> I(7000)]
          [] key = "cholesterol" ->
               [label |-> "Cholesterol (mg/dL)", min |-> I(80), max |-> I(400),
                default |-> I(170)]
          [] key = "creatinina" ->
               [label |-> "Creatinine (mg/dL)", min |-> F(3), max |-> F(50),
                default |-> F(9)]
          [] key = "gamma glutamyl transferase" ->
               [label |-> "Gamma GT (U/L)", min |-> I(5), max |-> I(300), default |-> I(30)]
          [] key = "protein" ->
               [label |-> "Total Protein (g/dL)", min |-> F(40), max |-> F(90),
                default |-> F(72)]]

\* marker_color of the first chart, by bar position.
MARKER_COLOR == <<"#2ecc71", "#e74c3c", "#f39c12", "#d35400", "#9b59b6">>

\* The class each entry of marker_color is meant for, as its comment says.
COLOR_COMMENT ==
    [c \in {"#2ecc71", "#e74c3c", "#f39c12", "#d35400", "#9b59b6"} |->
        CASE c = "#2ecc71" -> "Healthy Liver"
          [] c = "#e74c3c" -> "Cirrhosis"
          [] c = "#f39c12" -> "Hepatitis"
          [] c = "#d35400" -> "Fibrosis"
          [] c = "#9b59b6" -> "Suspected Liver Disorder"]

SEX_OPTIONS == <<"Male", "Female">>

(***************************************************************************)
(* The artifact: what joblib.load can return.  Feature names are distinct  *)
(* (they are the columns the pipeline was fitted on) and are drawn from a  *)
(* pool that exercises the lower-casing ("Age"), a float row ("albumin"),  *)
(* the selectbox ("Sex") and a feature FEATURE_UI does not declare.        *)
(***************************************************************************)
NamePool == {"Age", "albumin", "Sex", "spleen_size"}

\* str.lower() on the names of the pool.
Lower(name) ==
    CASE name = "Age" -> "age"
      [] name = "albumin" -> "albumin"
      [] name = "Sex" -> "sex"
      [] name = "spleen_size" -> "spleen_size"

\* feature.replace("_", " ").title() on the names of the pool.
TitleLabel(name) ==
    CASE name = "Age" -> "Age"
      [] name = "albumin" -> "Albumin"
      [] name = "Sex" -> "Sex"
      [] name = "spleen_size" -> "Spleen Size"

Range(s) == {s[k] : k \in DOMAIN s}

FeatureLists ==
    {fl \in UNION {[1..n -> NamePool] : n \in 1..MaxFeatures} :
        \A a, b \in DOMAIN fl : a # b => fl[a] # fl[b]}

\* Output cardinalities of the pipeline: the 5 of CLASS_MAP and its neighbours.
ClassCounts == {4, 5, 6}

\* Probability values, in percent, of the vectors the pipeline may return.
ProbLevels == {0, 10, 25, 45, 50, 75, 80, 100}

RECURSIVE SumTo(_, _)
SumTo(p, n) == IF n = 0 THEN 0 ELSE p[n - 1] + SumTo(p, n - 1)

\* sum(probs) for probs indexed 0..n-1
Total(p) == SumTo(p, Cardinality(DOMAIN p))

\* The lists of n levels that add up to total.
RECURSIVE Distributions(_, _)
Distributions(n, total) ==
    IF n = 0 THEN (IF total = 0 THEN {<<>>} ELSE {})
    ELSE UNION {{Append(s, v) : s \in Distributions(n - 1, total - v)} :
                   v \in {l \in ProbLevels : l <= total}}

\* predict_proba(...)[0]: any distribution over n classes, as an array indexed
\* from 0.
ProbVectors(n) == {[k \in 0..(n - 1) |-> s[k + 1]] : s \in Distributions(n, 100)}

NoProbs == <<>>
NoBundle == [id |-> 0]

(***************************************************************************)
(* INPUT SECTION (app.py:72-91).                                           *)
(***************************************************************************)
EmptyDict == [n \in {} |-> Unset]

\* dict assignment d[k] = v
DictSet(d, k, v) == [n \in DOMAIN d \cup {k} |-> IF n = k THEN v ELSE d[n]]

\* ui.get(field, fallback) for ui = FEATURE_UI.get(key, {})
UiGet(key, field, fallback) ==
    IF key \in DOMAIN FEATURE_UI THEN FEATURE_UI[key][field] ELSE fallback

UiLabel(feature) ==
    IF Lower(feature) \in DOMAIN FEATURE_UI
    THEN FEATURE_UI[Lower(feature)].label
    ELSE TitleLabel(feature)

IsSexKey(key) == key \in {"sex", "gender"}

\* st.selectbox("Sex", ["Male", "Female"]): the first option until the user picks one.
Selectbox(state) == IF state = Unset THEN SEX_OPTIONS[1] ELSE SEX_OPTIONS[state.v + 1]

\* st.number_input(min_value, max_value, value): the initial value, with its own
\* type, until the user sets another one.
NumberInput(min_value, max_value, value, state) == IF state = Unset THEN value ELSE state

\* The value the loop body stores for one feature (app.py:79-89).
CollectValue(feature, state) ==
    IF IsSexKey(Lower(feature))
    THEN (IF Selectbox(state) = "Male" THEN I(1) ELSE I(0))
    ELSE NumberInput(UiGet(Lower(feature), "min", F(0)),
                     UiGet(Lower(feature), "max", F(10000)),
                     UiGet(Lower(feature), "default", F(10)),
                     state)

\* The widget the loop body places (app.py:78-89).
WidgetOf(feature) ==
    IF IsSexKey(Lower(feature))
    THEN [kind |-> "selectbox", label |-> "Sex", feature |-> feature]
    ELSE [kind |-> "number_input", label |-> UiLabel(feature), feature |-> feature]

\* The frame read in the order the widgets lie on the page, column by column.
InputDfByColumn(data, names) ==
    LET placed == cols[1] \o cols[2]
    IN  [k \in 1..Len(placed) |-> <<placed[k].feature, data[placed[k].feature]>>]

\* pd.DataFrame([input_data], columns=feature_names): one row, the columns in the
\* order of feature_names.
InputDf(data, names) == [k \in 1..Len(names) |-> <<names[k], data[names[k]]>>]

\* What the user can set a feature's widget to.
UserValues(feature) ==
    IF IsSexKey(Lower(feature))
    THEN {[t |-> "option", v |-> 0], [t |-> "option", v |-> 1]}
    ELSE {UiGet(Lower(feature), "max", F(10000))}

(***************************************************************************)
(* ANALYSIS (app.py:98-226).                                               *)
(***************************************************************************)
Size(p) == Cardinality(DOMAIN p)

\* [(CLASS_MAP[i], probs[i]) for i in range(len(probs))]; defined when every index
\* is a key of CLASS_MAP.
LabelledProbs(p) == [k \in 1..Size(p) |-> <<CLASS_MAP[k - 1], p[k - 1]>>]

\* The class index of a label.
ClassIndex(label) == CHOOSE k \in DOMAIN CLASS_MAP : CLASS_MAP[k] = label

\* Insertion of x into a list that is descending by probability, behind every
\* entry whose probability is at least x's: entries of equal probability keep
\* the order in which they arrive.
RECURSIVE InsertStable(_, _)
InsertStable(x, s) ==
    IF s = <<>> THEN <<x>>
    ELSE IF Head(s)[2] >= x[2] THEN <<Head(s)>> \o InsertStable(x, Tail(s))
    ELSE <<x>> \o s

\* The same, in front of the entries of equal probability.
RECURSIVE InsertFront(_, _)
InsertFront(x, s) ==
    IF s = <<>> THEN <<x>>
    ELSE IF Head(s)[2] > x[2] THEN <<Head(s)>> \o InsertFront(x, Tail(s))
    ELSE <<x>> \o s

\* Descending sort by repeated insertion, ties reversed.
RECURSIVE SortReversingTies(_)
SortReversingTies(s) ==
    IF s = <<>> THEN <<>>
    ELSE InsertFront(s[Len(s)], SortReversingTies(SubSeq(s, 1, Len(s) - 1)))

\* sorted(s, key=lambda x: x[1], reverse=True): descending by probability;
\* Python's sort is stable, and stays stable under reverse=True.
RECURSIVE SortedDescending(_)
SortedDescending(s) ==
    IF s = <<>> THEN <<>>
    ELSE InsertStable(s[Len(s)], SortedDescending(SubSeq(s, 1, Len(s) - 1)))

\* The list sorted as sorted(...)[::-1] of an ascending sort would leave it.
ClassProbsReversingTies(p) == SortReversingTies(LabelledProbs(p))

\* class_probs (app.py:103-107)
ClassProbs(p) == SortedDescending(LabelledProbs(p))

\* Thresholds of the interpretation, in percent.
HIGH_CONFIDENCE == 80
MODERATE_CONFIDENCE == 50

\* The branch with its comparisons strict.
InterpretationStrict(top_prob, top_class, second_class) ==
    IF top_prob > HIGH_CONFIDENCE
    THEN <<[kind |-> "chat", tier |-> "high", class |-> top_class]>>
    ELSE IF top_prob > MODERATE_CONFIDENCE
    THEN <<[kind |-> "chat", tier |-> "moderate", class |-> top_class,
            overlap |-> second_class]>>
    ELSE <<[kind |-> "chat", tier |-> "diffuse"]>>

\* The branch with two independent ifs in place of if / elif.
InterpretationTwoIfs(top_prob, top_class, second_class) ==
    (IF top_prob >= HIGH_CONFIDENCE
     THEN <<[kind |-> "chat", tier |-> "high", class |-> top_class]>>
     ELSE <<>>)
    \o
    (IF top_prob >= MODERATE_CONFIDENCE
     THEN <<[kind |-> "chat", tier |-> "moderate", class |-> top_class,
             overlap |-> second_class]>>
     ELSE <<[kind |-> "chat", tier |-> "diffuse"]>>)

\* The messages the chat block writes (app.py:200-222): if / elif / else.
Interpretation(top_prob, top_class, second_class) ==
    IF top_prob >= HIGH_CONFIDENCE
    THEN <<[kind |-> "chat", tier |-> "high", class |-> top_class]>>
    ELSE IF top_prob >= MODERATE_CONFIDENCE
    THEN <<[kind |-> "chat", tier |-> "moderate", class |-> top_class,
            overlap |-> second_class]>>
    ELSE <<[kind |-> "chat", tier |-> "diffuse"]>>

\* Chart 1: one bar per entry of class_probs; marker_color is taken by position.
Chart1(cp) ==
    [kind |-> "chart1",
     bars |-> [k \in 1..Len(cp) |->
                 [x |-> cp[k][1], y |-> cp[k][2], color |-> MARKER_COLOR[k]]]]

Chart2(cp) ==
    [kind |-> "chart2",
     bars |-> <<[x |-> cp[1][1], y |-> cp[1][2], color |-> "#6c5ce7"],
                [x |-> cp[2][1], y |-> cp[2][2], color |-> "#00cec9"]>>]

\* The grouping with Hepatitis counted in the chronic group as well.
GroupedOverlapping(p) ==
    [healthy |-> p[0], acute |-> p[1] + p[2], chronic |-> p[2] + p[3] + p[4]]

\* healthy / acute / chronic of chart 3 (app.py:174-176).
Grouped(p) == [healthy |-> p[0], acute |-> p[1] + p[2], chronic |-> p[3] + p[4]]

Chart3(p) ==
    LET g == Grouped(p)
    IN  [kind |-> "chart3",
         bars |-> <<[x |-> "Healthy Pattern", y |-> g.healthy, color |-> "#2ecc71"],
                    [x |-> "Acute Pattern", y |-> g.acute, color |-> "#e67e22"],
                    [x |-> "Chronic Pattern", y |-> g.chronic, color |-> "#c0392b"]>>]

\* The body of `if st.button(...)` after predict_proba returned p, run to its end
\* or to the exception that stops it: the sorted list, the elements written to
\* the page before the stop, and the exception.
Analysis(p) ==
    IF \E k \in DOMAIN p : k \notin DOMAIN CLASS_MAP
    THEN \* CLASS_MAP[i] at app.py:104
         [class_probs |-> <<>>, rendered |-> <<>>, error |-> "KeyError"]
    ELSE
    LET cp == ClassProbs(p)
    IN  IF Len(cp) < 2
        THEN \* class_probs[0] or class_probs[1] at app.py:109-110
             [class_probs |-> cp, rendered |-> <<>>, error |-> "IndexError"]
        ELSE
        LET head == <<[kind |-> "success", class |-> cp[1][1]],
                      [kind |-> "info", top_prob |-> cp[1][2],
                       second_class |-> cp[2][1], second_prob |-> cp[2][2]],
                      Chart1(cp), Chart2(cp)>>
        IN  IF Size(p) < 5
            THEN \* probs[2], probs[3] or probs[4] at app.py:175-176
                 [class_probs |-> cp, rendered |-> head, error |-> "IndexError"]
            ELSE [class_probs |-> cp,
                  rendered |-> head \o <<Chart3(p)>>
                               \o Interpretation(cp[1][2], cp[1][1], cp[2][1])
                               \o <<[kind |-> "caption"]>>,
                  error |-> "none"]

(***************************************************************************)
(* The script run of one session.                                          *)
(***************************************************************************)
Artifacts == [pipeline : ClassCounts, feature_names : FeatureLists]

\* The object joblib.load returns on the k-th load of an artifact.
Loaded(k, artifact) ==
    [id |-> k, pipeline |-> artifact.pipeline, feature_names |-> artifact.feature_names]

Sessions == 1..NumSessions

\* The state of a script run at its top: every variable of the script is unbound,
\* nothing of the result section is on the page.
FreshRun(clicked) ==
    /\ pc' = "collect"
    /\ i' = 0
    /\ input_data' = EmptyDict
    /\ cols' = <<<<>>, <<>>>>
    /\ input_df' = <<>>
    /\ button' = clicked
    /\ probs' = NoProbs
    /\ class_probs' = <<>>
    /\ rendered' = <<>>
    /\ error' = "none"
    /\ predict_calls' = 0

Init ==
    /\ \E artifact \in Artifacts :
          /\ cache = Loaded(1, artifact)
          /\ pipeline = artifact.pipeline
          /\ feature_names = artifact.feature_names
    /\ loads = 1
    /\ lock = 0
    /\ spc = [s \in Sessions |-> "idle"]
    /\ held = [s \in Sessions |-> IF s = 1 THEN cache ELSE NoBundle]
    /\ widget = [f \in NamePool |-> Unset]
    /\ pc = "collect"
    /\ i = 0
    /\ input_data = EmptyDict
    /\ cols = <<<<>>, <<>>>>
    /\ input_df = <<>>
    /\ button = FALSE
    /\ probs = NoProbs
    /\ class_probs = <<>>
    /\ rendered = <<>>
    /\ error = "none"
    /\ predict_calls = 0

\* One iteration of `for i, feature in enumerate(feature_names)` (app.py:75-89).
CollectFeature ==
    /\ pc = "collect"
    /\ i < Len(feature_names)
    /\ LET feature == feature_names[i + 1]
           c == (i % 2) + 1
       IN  /\ cols' = [cols EXCEPT ![c] = Append(@, WidgetOf(feature))]
           /\ input_data' = DictSet(input_data, feature,
                                    CollectValue(feature, widget[feature]))
    /\ i' = i + 1
    /\ UNCHANGED <<pipeline, feature_names, widget, pc, input_df, button, probs,
                   class_probs, rendered, error, predict_calls, cacheVars>>

\* input_df = pd.DataFrame([input_data], columns=feature_names) (app.py:91).
BuildFrame ==
    /\ pc = "collect"
    /\ i = Len(feature_names)
    /\ input_df' = InputDf(input_data, feature_names)
    /\ pc' = "button"
    /\ UNCHANGED <<pipeline, feature_names, widget, i, input_data, cols, button, probs,
                   class_probs, rendered, error, predict_calls, cacheVars>>

\* The condition on the result section that lets every run in.
ButtonIgnored == TRUE

\* `if st.button("Analyze Pattern")` (app.py:98): true in the run the click started.
ButtonPressed == button

\* The body of the if: predict_proba, then everything derived from it.
Analyze ==
    /\ pc = "button"
    /\ ButtonPressed
    /\ \E p \in ProbVectors(pipeline) :
          LET out == Analysis(p)
          IN  /\ probs' = p
              /\ class_probs' = out.class_probs
              /\ rendered' = out.rendered
              /\ error' = out.error
    /\ predict_calls' = predict_calls + 1
    /\ pc' = "done"
    /\ UNCHANGED <<pipeline, feature_names, widget, i, input_data, cols, input_df,
                   button, cacheVars>>

\* The if is false: the script falls through to the footer.
SkipAnalysis ==
    /\ pc = "button"
    /\ ~ButtonPressed
    /\ pc' = "done"
    /\ UNCHANGED <<pipeline, feature_names, widget, i, input_data, cols, input_df,
                   button, probs, class_probs, rendered, error, predict_calls,
                   cacheVars>>

\* The user presses the Analyze button: the script is run again.
ClickAnalyze ==
    /\ pc = "done"
    /\ FreshRun(TRUE)
    /\ UNCHANGED <<pipeline, feature_names, widget, cacheVars>>

\* The user changes an input: the script is run again, the button not pressed.
EditInput ==
    /\ pc = "done"
    /\ \E k \in 1..Len(feature_names) :
          \E v \in UserValues(feature_names[k]) \cup {Unset} :
             /\ v # widget[feature_names[k]]
             /\ widget' = [widget EXCEPT ![feature_names[k]] = v]
    /\ FreshRun(FALSE)
    /\ UNCHANGED <<pipeline, feature_names, cacheVars>>

Next ==
    \/ CollectFeature
    \/ BuildFrame
    \/ Analyze
    \/ SkipAnalysis
    \/ ClickAnalyze
    \/ EditInput

Spec == Init /\ [][Next]_vars

(***************************************************************************)
(* load_pipeline() under @st.cache_resource, called by the script runs of  *)
(* concurrent sessions (app.py:18-24).  The decorator keeps one entry per  *)
(* process for the argument-less call: a run that finds the entry gets the *)
(* cached object; a run that misses takes the entry's compute lock, looks  *)
(* again, and only then runs the function body and stores its result.      *)
(***************************************************************************)
DiskArtifact == [pipeline |-> 5, feature_names |-> <<"Age", "Sex", "albumin">>]

InitCache ==
    /\ cache = NoBundle
    /\ loads = 0
    /\ lock = 0
    /\ spc = [s \in Sessions |-> "idle"]
    /\ held = [s \in Sessions |-> NoBundle]
    /\ pipeline = DiskArtifact.pipeline
    /\ feature_names = DiskArtifact.feature_names
    /\ widget = [f \in NamePool |-> Unset]
    /\ pc = "collect"
    /\ i = 0
    /\ input_data = EmptyDict
    /\ cols = <<<<>>, <<>>>>
    /\ input_df = <<>>
    /\ button = FALSE
    /\ probs = NoProbs
    /\ class_probs = <<>>
    /\ rendered = <<>>
    /\ error = "none"
    /\ predict_calls = 0

\* A function without the decorator: every call runs the body.
CacheMissAlways == TRUE

\* The decorator's lookup of the entry of load_pipeline().
CacheMiss == cache = NoBundle

\* A script run of session s starts and reaches `bundle = load_pipeline()`.
BeginRun(s) ==
    /\ spc[s] = "idle"
    /\ spc' = [spc EXCEPT ![s] = "lookup"]
    /\ held' = [held EXCEPT ![s] = NoBundle]
    /\ UNCHANGED <<cache, loads, lock, runVars>>

\* The first lookup, without the lock.
CacheLookup(s) ==
    /\ spc[s] = "lookup"
    /\ IF CacheMiss
       THEN /\ spc' = [spc EXCEPT ![s] = "wait"]
            /\ UNCHANGED held
       ELSE /\ spc' = [spc EXCEPT ![s] = "script"]
            /\ held' = [held EXCEPT ![s] = cache]
    /\ UNCHANGED <<cache, loads, lock, runVars>>

AcquireLock(s) ==
    /\ spc[s] = "wait"
    /\ lock = 0
    /\ lock' = s
    /\ spc' = [spc EXCEPT ![s] = "locked"]
    /\ UNCHANGED <<cache, loads, held, runVars>>

\* Under the lock: the second lookup, then joblib.load (app.py:20) on a miss.
LoadOrReuse(s) ==
    /\ spc[s] = "locked"
    /\ lock = s
    /\ IF CacheMiss
       THEN /\ loads' = loads + 1
            /\ cache' = Loaded(loads + 1, DiskArtifact)
            /\ held' = [held EXCEPT ![s] = Loaded(loads + 1, DiskArtifact)]
       ELSE /\ held' = [held EXCEPT ![s] = cache]
            /\ UNCHANGED <<cache, loads>>
    /\ lock' = 0
    /\ spc' = [spc EXCEPT ![s] = "script"]
    /\ UNCHANGED runVars

\* The rest of the run: it reads bundle["pipeline"] and bundle["feature_names"]
\* (app.py:23-24, 75, 91, 100) and writes neither.
RunScript(s) ==
    /\ spc[s] = "script"
    /\ held[s].pipeline = DiskArtifact.pipeline
    /\ held[s].feature_names = DiskArtifact.feature_names
    /\ spc' = [spc EXCEPT ![s] = "idle"]
    /\ UNCHANGED <<cache, loads, lock, held, runVars>>

NextCache ==
    \/ \E s \in Sessions : BeginRun(s)
    \/ \E s \in Sessions : CacheLookup(s)
    \/ \E s \in Sessions : AcquireLock(s)
    \/ \E s \in Sessions : LoadOrReuse(s)
    \/ \E s \in Sessions : RunScript(s)

SpecCache == InitCache /\ [][NextCache]_vars

(***************************************************************************)
(* Properties.                                                             *)
(***************************************************************************)
\* The elements of one kind on the page, by position.
Positions(kind) == {k \in DOMAIN rendered : rendered[k].kind = kind}

\* A run started by the button has come to its end.
Analysed == pc = "done" /\ button

\* ... with a vector of the 5 classes of CLASS_MAP.
Analysed5 == Analysed /\ Size(probs) = 5

MaxProb(p) == CHOOSE m \in {p[k] : k \in DOMAIN p} : \A k \in DOMAIN p : p[k] <= m

\* The lowest index that attains the maximum.
ArgMaxFirst(p) ==
    CHOOSE k \in DOMAIN p : p[k] = MaxProb(p) /\ \A j \in DOMAIN p : j < k => p[j] < p[k]

\* The tiers written by the chat block of this run.
TiersWritten == {rendered[k].tier : k \in Positions("chat")}

\* C1, as stated: for a top-class confidence c the interpretation is the diffuse
\* (Low) message when c < 0.45, the moderate (Medium) one when 0.45 <= c < 0.75 and
\* the high-confidence (High) one when c >= 0.75.
C1_TiersAt45And75 ==
    Analysed5 =>
        TiersWritten = {IF MaxProb(probs) >= 75 THEN "high"
                        ELSE IF MaxProb(probs) >= 45 THEN "moderate"
                        ELSE "diffuse"}

\* C1, amended: the cut points are 0.50 and 0.80: diffuse when c < 0.50, moderate
\* when 0.50 <= c < 0.80, high when c >= 0.80; each boundary value belongs to the
\* higher tier.
C1_TiersAt50And80 ==
    Analysed5 =>
        TiersWritten = {IF MaxProb(probs) >= 80 THEN "high"
                        ELSE IF MaxProb(probs) >= 50 THEN "moderate"
                        ELSE "diffuse"}

\* An analysis whose top probability sits on a boundary: exactly 0.50.
C1_Witness == Analysed5 /\ MaxProb(probs) = 50 /\ TiersWritten = {"moderate"}

\* C2: when the pipeline returns a vector whose length is not the 5 of CLASS_MAP,
\* the analysis ends in an error and renders no prediction, chart or
\* recommendation.
C2_MismatchRendersNothing ==
    (Analysed /\ Size(probs) # Cardinality(DOMAIN CLASS_MAP)) =>
        (error # "none" /\ rendered = <<>>)

\* C3: for a vector of length 5, class_probs is a permutation of the five
\* (label, probability) pairs, descending by probability, equal probabilities in
\* ascending class index; the primary class is the lowest-index class with the
\* maximum probability, the secondary class is the next entry of the ranking and
\* differs from the primary.
C3_Ranking ==
    Analysed5 =>
        /\ Len(class_probs) = 5
        /\ Range(class_probs) = {<<CLASS_MAP[k], probs[k]>> : k \in 0..4}
        /\ \A k \in 1..4 :
              \/ class_probs[k][2] > class_probs[k + 1][2]
              \/ /\ class_probs[k][2] = class_probs[k + 1][2]
                 /\ ClassIndex(class_probs[k][1]) < ClassIndex(class_probs[k + 1][1])
        /\ \A k \in Positions("success") :
              rendered[k].class = CLASS_MAP[ArgMaxFirst(probs)]
        /\ \A k \in Positions("info") :
              /\ rendered[k].top_prob = MaxProb(probs)
              /\ rendered[k].second_class = class_probs[2][1]
              /\ rendered[k].second_prob = class_probs[2][2]
              /\ rendered[k].second_class # CLASS_MAP[ArgMaxFirst(probs)]
        /\ Positions("success") # {}
        /\ Positions("info") # {}

\* An analysis in which two classes tie for the maximum.
C3_Witness ==
    /\ Analysed5
    /\ \E a, b \in DOMAIN probs :
          a < b /\ probs[a] = MaxProb(probs) /\ probs[b] = MaxProb(probs)

\* C4: over all runs of all sessions of a process, joblib.load runs at most once,
\* every run holds the one loaded bundle, and the cached bundle stays what was
\* loaded.
C4_LoadedOnceAndShared ==
    /\ loads <= 1
    /\ cache \in {NoBundle, Loaded(1, DiskArtifact)}
    /\ \A s \in Sessions : held[s] \in {NoBundle, cache}
    /\ \A s \in Sessions : spc[s] = "script" => held[s] = Loaded(1, DiskArtifact)

\* Two sessions missed the cache together; one has loaded the bundle and runs on
\* it while the other still waits for the lock.
C4_Witness ==
    \E s, t \in Sessions :
        /\ s # t
        /\ spc[s] = "wait"
        /\ spc[t] = "script"
        /\ held[t] = cache
        /\ loads = 1

\* The initial value number_input shows for a feature.
DeclaredDefault(feature) ==
    IF Lower(feature) \in DOMAIN FEATURE_UI
    THEN FEATURE_UI[Lower(feature)].default
    ELSE F(10)

\* C5: the frame passed to predict_proba has one value per declared feature, in
\* the declared order, whatever column each widget lies in; the value of a
\* numeric input the user left untouched is the FEATURE_UI default of the
\* feature (1.0 for an undeclared feature), type and value unchanged.
C5_FrameFollowsFeatureNames ==
    pc \in {"button", "done"} =>
        /\ Len(input_df) = Len(feature_names)
        /\ \A k \in 1..Len(feature_names) :
              /\ input_df[k][1] = feature_names[k]
              /\ input_df[k][2] = input_data[feature_names[k]]
              /\ (widget[feature_names[k]] = Unset /\ ~IsSexKey(Lower(feature_names[k])))
                    => input_df[k][2] = DeclaredDefault(feature_names[k])

\* Three untouched inputs, the first and the third in the left column, one of
\* them not declared in FEATURE_UI, passed to predict_proba.
C5_Witness ==
    /\ Analysed
    /\ Len(feature_names) = 3
    /\ Len(cols[1]) = 2
    /\ \A k \in 1..3 : widget[feature_names[k]] = Unset
    /\ \E k \in 1..3 : Lower(feature_names[k]) \notin DOMAIN FEATURE_UI
    /\ \E k \in 1..3 : input_df[k][2].t = "int" /\ ~IsSexKey(Lower(feature_names[k]))

\* C6: whatever the top probability, an analysis that reaches the interpretation
\* block writes exactly one of the three messages, and every analysis of a
\* 5-class vector reaches it.
C6_ExactlyOneMessage ==
    /\ (Analysed /\ error = "none") =>
          /\ Cardinality(Positions("chat")) = 1
          /\ TiersWritten \subseteq {"high", "moderate", "diffuse"}
    /\ Analysed5 => error = "none"

\* An analysis in the top tier, where both comparisons of the branch are true.
C6_Witness == Analysed5 /\ MaxProb(probs) >= HIGH_CONFIDENCE /\ TiersWritten = {"high"}

\* C7: for a vector of length 5 the chronic value is probs[3] + probs[4], the
\* healthy value probs[0], the acute value probs[1] + probs[2], and the three add
\* up to the sum of the vector.
C7_Groups ==
    Analysed5 =>
        /\ Positions("chart3") # {}
        /\ \A k \in Positions("chart3") :
              LET bars == rendered[k].bars
              IN  /\ bars[1].y = probs[0]
                  /\ bars[2].y = probs[1] + probs[2]
                  /\ bars[3].y = probs[3] + probs[4]
                  /\ bars[1].y + bars[2].y + bars[3].y = Total(probs)

\* An analysis in which Hepatitis, Fibrosis and Suspected all have some mass.
C7_Witness == Analysed5 /\ probs[2] > 0 /\ probs[3] > 0 /\ probs[4] > 0

\* C8: after an analysis the page shows a deviation profile of the submitted
\* feature values.
C8_DeviationProfileShown ==
    (Analysed /\ error = "none") => Positions("deviation_profile") # {}

\* C9: in a run, predict_proba is called at most once, only if the button started
\* the run and only after every declared feature was collected; results are on
\* the page only after that call; a run the button did not start shows no result
\* and holds no prediction.
C9_OneRequestOneResponse ==
    /\ predict_calls <= 1
    /\ predict_calls = 1 =>
          /\ button
          /\ i = Len(feature_names)
          /\ DOMAIN input_data = Range(feature_names)
          /\ Len(input_df) = Len(feature_names)
    /\ (rendered # <<>> \/ probs # NoProbs \/ class_probs # <<>>) => predict_calls = 1
    /\ ~button => (predict_calls = 0 /\ rendered = <<>> /\ probs = NoProbs)

\* A run the button started, with its prediction and its results on the page.
C9_Witness == Analysed /\ predict_calls = 1 /\ rendered # <<>> /\ Len(feature_names) = 3

\* C10: in the chart of all 5 classes every bar has the colour the colour list's
\* comments give its class, and the probability of its class.
C10_BarsInClassColours ==
    Analysed5 =>
        \A k \in Positions("chart1") :
            \A b \in DOMAIN rendered[k].bars :
                /\ COLOR_COMMENT[rendered[k].bars[b].color] = rendered[k].bars[b].x
                /\ rendered[k].bars[b].y = probs[ClassIndex(rendered[k].bars[b].x)]
=============================================================================
